---- MODULE Spec2Model ----
(***************************************************************************)
(* A model of sunburn: the genesis builder (src/src/lib.rs), the local and *)
(* the remote backend (src/src/client/local.rs, src/src/client/remote.rs), *)
(* the error taxonomy and its erasure (src/src/client.rs) and the chunked  *)
(* legacy deployment protocol (src/src/lib.rs).                            *)
(*                                                                         *)
(* Four specifications share the module, one per part of the program:      *)
(*   SpecGenesis  the builder, build_local_sync, RemoteClientSync::new     *)
(*   SpecClient   send_transaction of the local and of the remote backend  *)
(*   SpecErr      From<ClientError<E>> for DynClientError                  *)
(*   SpecDeploy   create_account_with_data / deploy_program                *)
(* Each leaves the variables of the other parts at their idle values.      *)
(***************************************************************************)
EXTENDS Integers, Sequences, FiniteSets, TLC

VARIABLES
    \* ---- genesis builder and the environment built from it
    accounts,      \* EnvironmentGenesis.accounts: address -> AccountConfig
    payer,         \* EnvironmentGenesis.payer: None or the keypair's address
    inserted,      \* history: how many times each address was inserted
    phase,         \* "building" | "panicked" | "local" | "remote" | "remote_err"
    ledger,        \* the local bank's accounts after build_local_sync
    envPayer,      \* Environment.payer
    remote,        \* the remote ledger the build talked to, and what it asked
    got,           \* the last get_account: [address, result]
    \* ---- a backend and its send_transaction
    backend,       \* "local" | "remote" | "idle"
    bank,          \* local ledger: address -> lamports
    cache,         \* local ledger: the status cache (transactions executed)
    raw,           \* the backend's raw outcome of the last transaction
    ret,           \* what the last send_transaction returned
    sends,         \* how many transactions were sent
    \* ---- error erasure
    errIn,         \* a ClientError<E>
    errOut,        \* DynClientError::from(errIn), once converted
    \* ---- deployment
    dop,           \* the operation: "create_account_with_data" |
                   \* "deploy_program" | "deploy_upgradeable_program"
    payload,       \* its data argument
    dpc,           \* "create" | "write" | "finalize" | "create_buffer" |
                   \* "buffer_write" | "deploy" | "done" | "failed" | "idle"
    chunkIdx,      \* how many chunks the loop has taken from data.chunks(900)
    offset,        \* the loop's offset
    store,         \* the ledger's account at the program address, if any
    submitted,     \* history: the transactions submitted, in order
    dres,          \* what the operation returned
    keys,          \* deploy_upgradeable_program: the program, buffer and
                   \* authority keypairs' addresses
    compact,       \* deploy_upgradeable_program: the compact flag
    uledger,       \* the ledger's accounts the upgradeable loader acts on
    outcomes,      \* history: what send_transaction returned, per transaction
    \* ---- account queries
    qledger,       \* the backend's accounts: address -> None or the data
    qcall,         \* the last query: [op, address]
    qres           \* what it returned

genesisVars == <<accounts, payer, inserted, phase, ledger, envPayer, remote, got>>
clientVars == <<backend, bank, cache, raw, ret, sends>>

errVars == <<errIn, errOut>>

deployVars ==
    <<dop, payload, dpc, chunkIdx, offset, store, submitted, dres,
      keys, compact, uledger, outcomes>>

queryVars == <<qledger, qcall, qres>>

vars == <<genesisVars, clientVars, errVars, deployVars, queryVars>>

\* What the actions of one part leave alone: the variables of the others.
notGenesis == <<clientVars, errVars, deployVars, queryVars>>
notClient == <<genesisVars, errVars, deployVars, queryVars>>
notErr == <<genesisVars, clientVars, deployVars, queryVars>>
notDeploy == <<genesisVars, clientVars, errVars, queryVars>>
notQuery == <<genesisVars, clientVars, errVars, deployVars>>

\* Option<T>: None is the empty sequence, Some(x) the sequence of x alone.
None == <<>>
Some(x) == <<x>>
Unwrap(o) == o[1]

Min(a, b) == IF a < b THEN a ELSE b

(***************************************************************************)
(* Addresses.  The catalog of pre-installed programs is the four SPL       *)
(* programs spl_programs() yields; their images are stand-ins.             *)
(***************************************************************************)
SystemProgram == "11111111111111111111111111111111"
BpfLoader     == "BPFLoader2111111111111111111111111111111111"
RentId        == "SysvarRent111111111111111111111111111111111"

SplPrograms ==
    { "TokenkegQfeZyiNwAJbNbGKPFXCWuBvf9Ss623VQ5DA",
      "Memo1UhkJRfHyvLMcVucJwxXeuD728EqVDDwQDxFMNo",
      "MemoSq4gqABAXKb96qnH8TysNcWxMyWCqXgDLGmfcHr",
      "ATokenGPvbdGVxr1b2hvZbsiqW5xWH25efTNsLJA8knL" }

\* The payer keypair a caller may supply, and the one Keypair::new() yields.
PayerKey == "k1"
FreshKey == "fresh"

\* The addresses the caller passes to add_account / add_program: a free one,
\* the payer's own, and one the catalog already holds.
UserAddrs == {"a1", PayerKey, "TokenkegQfeZyiNwAJbNbGKPFXCWuBvf9Ss623VQ5DA"}

Addresses == UserAddrs \cup SplPrograms \cup {FreshKey, RentId}

\* ---- bounds of the genesis inputs
MaxDataLen == 2

\* The data of a configured account: n bytes 1, 2, .., n.
DataOfLen(n) == [i \in 1..n |-> i]
Datas == {DataOfLen(n) : n \in 0..MaxDataLen}

\* A lamport amount a caller configures (positive: the bank does not show
\* an account that holds no lamports).
SomeLamports == 7

(***************************************************************************)
(* Lamports are u64; the genesis payer's balance (10^18) does not fit the  *)
(* checker's integers, so an amount is kept as [sol, rem] with             *)
(* value = sol * 10^9 + rem.                                               *)
(***************************************************************************)
Lam(n) == [sol |-> 0, rem |-> n]
sol_to_lamports(sol) == [sol |-> sol, rem |-> 0]

\* Rent::default(): 3480 lamports per byte-year, exempt after 2 years, and
\* 128 bytes of storage overhead per account.
LamportsPerByteYear  == 3480
ExemptionThreshold   == 2
AccountStorageOverhead == 128

minimum_balance(data_len) ==
    (AccountStorageOverhead + data_len) * LamportsPerByteYear * ExemptionThreshold

\* Environment::rent_exemption_amount
rent_exemption_amount(data_len) ==
    IF minimum_balance(data_len) > 1 THEN minimum_balance(data_len) ELSE 1

AccountConfigs ==
    [lamports : {None, Some(SomeLamports)}, data : Datas,
     owner : {SystemProgram, BpfLoader}, executable : BOOLEAN]

\* AccountConfig::default()
DefaultConfig ==
    [lamports |-> None, data |-> <<>>, owner |-> SystemProgram, executable |-> FALSE]

\* AccountConfig::to_account
to_account(config) ==
    [lamports |-> IF config.lamports = None
                  THEN Lam(Min(minimum_balance(Len(config.data)), 1))
                  ELSE Lam(Unwrap(config.lamports)),
     data |-> config.data,
     owner |-> config.owner,
     executable |-> config.executable,
     rent_epoch |-> 0]

\* HashMap::insert / BTreeMap collect: a later entry replaces an earlier one.
Insert(m, k, v) == [x \in DOMAIN m \cup {k} |-> IF x = k THEN v ELSE m[x]]

EmptyMap == [x \in {} |-> 0]

\* The image of a pre-installed program (a stand-in for its ELF bytes).
ElfImage == <<127, 69>>

\* EnvironmentGenesis::default(): the catalog, lamports left to the build.
CatalogConfig ==
    [lamports |-> None, data |-> ElfImage, owner |-> BpfLoader, executable |-> TRUE]

\* The account AccountConfig of add_program
ProgramConfig(data) ==
    [DefaultConfig EXCEPT !.data = data, !.owner = BpfLoader, !.executable = TRUE]

NoResult == [address |-> "", result |-> [tag |-> "none"]]

NoRemote == [exists |-> {}, queried |-> {}, rentOk |-> TRUE, failAt |-> 0]

GenesisInit ==
    /\ accounts = [a \in SplPrograms |-> CatalogConfig]
    /\ payer = None
    /\ inserted = [a \in Addresses |-> IF a \in SplPrograms THEN 1 ELSE 0]
    /\ phase = "building"
    /\ ledger = EmptyMap
    /\ envPayer = None
    /\ remote = NoRemote
    /\ got = NoResult

\* EnvironmentGenesis::add_payer: assert!(self.payer.is_none())
add_payer(keypair) ==
    /\ phase = "building"
    /\ IF payer = None
       THEN payer' = Some(keypair) /\ phase' = "building"
       ELSE payer' = payer /\ phase' = "panicked"
    /\ UNCHANGED <<accounts, inserted, ledger, envPayer, remote, got, notGenesis>>

\* Mutant of InsertOnce: the assertion is missing, the insert replaces silently.
InsertOnceNoAssert(address, config) ==
    /\ accounts' = Insert(accounts, address, config)
    /\ inserted' = [inserted EXCEPT ![address] = @ + 1]
    /\ phase' = "building"

\* assert!(self.accounts.insert(address, config).is_none(), ..): the insert is
\* evaluated first, the assertion on what it returned second.
InsertOnce(address, config) ==
    /\ accounts' = Insert(accounts, address, config)
    /\ inserted' = [inserted EXCEPT ![address] = @ + 1]
    /\ phase' = IF address \in DOMAIN accounts THEN "panicked" ELSE "building"

\* EnvironmentGenesis::add_account
add_account(address, config) ==
    /\ phase = "building"
    /\ InsertOnce(address, config)
    /\ UNCHANGED <<payer, ledger, envPayer, remote, got, notGenesis>>

\* EnvironmentGenesis::add_program
add_program(address, data) ==
    /\ phase = "building"
    /\ InsertOnce(address, ProgramConfig(data))
    /\ UNCHANGED <<payer, ledger, envPayer, remote, got, notGenesis>>

PayerGenesisSol == 1000000000

\* The account LocalClientSync::new pushes for the payer.
PayerAccount ==
    [lamports |-> sol_to_lamports(PayerGenesisSol), data |-> <<>>,
     owner |-> SystemProgram, executable |-> FALSE, rent_epoch |-> 0]

\* Mutant of GenesisAccounts: the payer's account is pushed first, so a
\* configured account at the payer's address replaces it.
GenesisAccountsPayerFirst(p) ==
    [a \in DOMAIN accounts \cup {p} |->
        IF a \in DOMAIN accounts THEN to_account(accounts[a]) ELSE PayerAccount]

\* LocalClientSync::new: the configured accounts, then the payer's, collected
\* by GenesisConfig::new into a map keyed by address (the last entry of an
\* address is the one kept).
GenesisAccounts(p) ==
    Insert([a \in DOMAIN accounts |-> to_account(accounts[a])], p, PayerAccount)

\* EnvironmentGenesis::build_local_sync
build_local_sync ==
    /\ phase = "building"
    /\ LET p == IF payer = None THEN FreshKey ELSE Unwrap(payer)
       IN /\ ledger' = GenesisAccounts(p)
          /\ envPayer' = Some(p)
    /\ phase' = "local"
    /\ UNCHANGED <<accounts, payer, inserted, remote, got, notGenesis>>

\* LocalClientSync::get_account
get_account(address) ==
    IF address \in DOMAIN ledger
    THEN [tag |-> "Ok", account |-> ledger[address]]
    ELSE [tag |-> "AccountNotFound", address |-> address]

GetAccount(address) ==
    /\ phase = "local"
    /\ got' = [address |-> address, result |-> get_account(address)]
    /\ UNCHANGED <<accounts, payer, inserted, phase, ledger, envPayer, remote, notGenesis>>

\* The remote ledgers a build may meet: which addresses exist there.
RemoteLedgers ==
    {s \cup t : s \in SUBSET {RentId, "a1", PayerKey}, t \in {{}, SplPrograms}}

\* get_existing_account(client, pubkey): the address it asks the ledger for.
QueriedAddress(pubkey) == RentId

\* RemoteClientSync::new.  failAt: 0 no transport failure, 1 the first query
\* fails, 2 a query of the loop over the configured accounts fails.
\* An absent account is a panic (expect), a transport failure an Err.
RemoteNew(exists, rentOk, failAt) ==
    LET asked == {QueriedAddress(RentId)}
                 \cup {QueriedAddress(k) : k \in DOMAIN accounts}
    IN  IF failAt = 1 THEN [phase |-> "remote_err", queried |-> {QueriedAddress(RentId)}]
        ELSE IF QueriedAddress(RentId) \notin exists
             THEN [phase |-> "panicked", queried |-> {QueriedAddress(RentId)}]
        ELSE IF ~rentOk THEN [phase |-> "panicked", queried |-> {QueriedAddress(RentId)}]
        ELSE IF failAt = 2 THEN [phase |-> "remote_err", queried |-> asked]
        ELSE IF \E k \in DOMAIN accounts : QueriedAddress(k) \notin exists
             THEN [phase |-> "panicked", queried |-> asked]
        ELSE IF payer = None THEN [phase |-> "panicked", queried |-> asked]
        ELSE [phase |-> "remote", queried |-> asked]

build_remote(exists, rentOk, failAt) ==
    /\ phase = "building"
    /\ LET r == RemoteNew(exists, rentOk, failAt)
       IN /\ phase' = r.phase
          /\ remote' = [exists |-> exists, queried |-> r.queried,
                        rentOk |-> rentOk, failAt |-> failAt]
          /\ envPayer' = IF r.phase = "remote" THEN payer ELSE None
    /\ UNCHANGED <<accounts, payer, inserted, ledger, got, notGenesis>>

GenesisNext ==
    \/ add_payer(PayerKey)
    \/ \E a \in UserAddrs, c \in AccountConfigs : add_account(a, c)
    \/ \E a \in UserAddrs, d \in Datas : add_program(a, d)
    \/ build_local_sync
    \/ \E a \in Addresses : GetAccount(a)
    \/ \E e \in RemoteLedgers, ok \in BOOLEAN, f \in 0..2 : build_remote(e, ok, f)

(***************************************************************************)
(* The backends.  The ledger engine (local) and the RPC transport (remote) *)
(* are collaborators: the ledger is modelled as a bank of lamport balances *)
(* that runs one system transfer per transaction, the transport as the set *)
(* of responses its client library can hand back.                          *)
(***************************************************************************)
MaxSends == 2

LocalAddrs == {"p", "q", "r"}
LamportsPerSignature == 5000

\* The bank a local environment starts from: p can pay fees, q holds less
\* than one fee, r does not exist.
BankInit == [a \in {"p", "q"} |-> IF a = "p" THEN 20000 ELSE 4000]

\* A transaction: one transfer of `amount` from the fee payer to `to`.
\* shape: whether the wire form sanitizes, and whether it names a key twice.
Transactions ==
    [fee_payer : LocalAddrs, to : LocalAddrs, amount : {3000, 30000},
     blockhash : {"recent", "stale"},
     shape : {"well_formed", "unsanitary", "dup_keys"}]

\* TransactionDetails
Details(logs, units) == [log_messages |-> logs, units_consumed |-> units]

\* Bank::prepare_entry_batch: Err for a transaction that does not sanitize.
prepare_entry_batch(tx) ==
    IF tx.shape = "unsanitary"
    THEN [tag |-> "Err", error |-> "SanitizeFailure"]
    ELSE [tag |-> "Ok"]

\* The ledger's checks before execution, in its order; None when all pass.
LoadError(tx) ==
    IF tx.shape = "dup_keys" THEN Some("AccountLoadedTwice")
    ELSE IF tx.blockhash = "stale" THEN Some("BlockhashNotFound")
    ELSE IF tx \in cache THEN Some("AlreadyProcessed")
    ELSE IF tx.fee_payer \notin DOMAIN bank THEN Some("AccountNotFound")
    ELSE IF bank[tx.fee_payer] < LamportsPerSignature
         THEN Some("InsufficientFundsForFee")
    ELSE None

Credit(b, a, n) == Insert(b, a, (IF a \in DOMAIN b THEN b[a] ELSE 0) + n)

\* Bank::load_execute_and_commit_transactions on a one-transaction batch:
\* the execution result, and the bank and status cache it commits.
load_execute_and_commit(tx) ==
    IF LoadError(tx) # None
    THEN [result |-> [kind |-> "NotExecuted", error |-> Unwrap(LoadError(tx))],
          bank |-> bank, cache |-> cache]
    ELSE LET charged == [bank EXCEPT ![tx.fee_payer] = @ - LamportsPerSignature]
         IN  IF charged[tx.fee_payer] >= tx.amount
             THEN [result |-> [kind |-> "Executed", status |-> None,
                               log_messages |-> Some(<<"invoke", "success">>),
                               executed_units |-> Some(150)],
                   bank |-> Credit([charged EXCEPT ![tx.fee_payer] = @ - tx.amount],
                                   tx.to, tx.amount),
                   cache |-> cache \cup {tx}]
             ELSE [result |-> [kind |-> "Executed",
                               status |-> Some("InstructionError"),
                               log_messages |-> Some(<<"invoke", "insufficient lamports">>),
                               executed_units |-> Some(150)],
                   bank |-> charged,
                   cache |-> cache \cup {tx}]

UnwrapOr(o, d) == IF o = None THEN d ELSE Unwrap(o)

\* Mutant of convert_tx_result: a transaction the ledger did not execute is
\* reported as one that ran and failed.
convert_tx_result_NotExecutedAsFailed(tx_result) ==
    IF tx_result.kind = "Executed"
    THEN LET details_core == Details(UnwrapOr(tx_result.log_messages, <<>>),
                                     tx_result.executed_units)
         IN  IF tx_result.status = None
             THEN [tag |-> "Ok", details |-> details_core]
             ELSE [tag |-> "FailedTransaction", error |-> Unwrap(tx_result.status),
                   details |-> details_core]
    ELSE [tag |-> "FailedTransaction", error |-> tx_result.error,
          details |-> Details(<<>>, Some(0))]

\* Mutant of convert_tx_result: a transaction that ran and failed is reported
\* as one the ledger did not execute.
convert_tx_result_FailedAsInvalid(tx_result) ==
    IF tx_result.kind = "Executed"
    THEN IF tx_result.status = None
         THEN [tag |-> "Ok",
               details |-> Details(UnwrapOr(tx_result.log_messages, <<>>),
                                   tx_result.executed_units)]
         ELSE [tag |-> "InvalidTransaction", error |-> Unwrap(tx_result.status)]
    ELSE [tag |-> "InvalidTransaction", error |-> tx_result.error]

\* Mutant of convert_tx_result: the units the ledger metered are dropped.
convert_tx_result_NoUnits(tx_result) ==
    IF tx_result.kind = "Executed"
    THEN LET details_core == Details(UnwrapOr(tx_result.log_messages, <<>>), None)
         IN  IF tx_result.status = None
             THEN [tag |-> "Ok", details |-> details_core]
             ELSE [tag |-> "FailedTransaction", error |-> Unwrap(tx_result.status),
                   details |-> details_core]
    ELSE [tag |-> "InvalidTransaction", error |-> tx_result.error]

\* local.rs convert_tx_result
convert_tx_result(tx_result) ==
    IF tx_result.kind = "Executed"
    THEN LET details_core == Details(UnwrapOr(tx_result.log_messages, <<>>),
                                     tx_result.executed_units)
         IN  IF tx_result.status = None
             THEN [tag |-> "Ok", details |-> details_core]
             ELSE [tag |-> "FailedTransaction", error |-> Unwrap(tx_result.status),
                   details |-> details_core]
    ELSE [tag |-> "InvalidTransaction", error |-> tx_result.error]

\* LocalClientSync::send_transaction: the value returned for the raw outcome.
LocalReturn(prepared, tx_result) ==
    IF prepared.tag = "Err"
    THEN [tag |-> "InvalidTransaction", error |-> prepared.error]
    ELSE convert_tx_result(tx_result)

\* LocalClientSync::send_transaction
LocalSend(tx) ==
    /\ backend = "local"
    /\ sends < MaxSends
    /\ LET prepared == prepare_entry_batch(tx)
           done == load_execute_and_commit(tx)
       IN  IF prepared.tag = "Err"
           THEN /\ raw' = [kind |-> "PrepareErr", error |-> prepared.error]
                /\ ret' = LocalReturn(prepared, done.result)
                /\ UNCHANGED <<bank, cache>>
           ELSE /\ raw' = done.result
                /\ ret' = LocalReturn(prepared, done.result)
                /\ bank' = done.bank
                /\ cache' = done.cache
    /\ sends' = sends + 1
    /\ UNCHANGED <<backend, notClient>>

(***************************************************************************)
(* The remote backend.  A response of the transport is what                *)
(* send_and_confirm_transaction returned and, when that was a signature,   *)
(* what get_transaction returned.                                          *)
(***************************************************************************)
\* rpc_custom_error: the two codes send_transaction looks for, and another.
JSON_RPC_SERVER_ERROR_SEND_TRANSACTION_PREFLIGHT_FAILURE == -32002
JSON_RPC_SERVER_ERROR_TRANSACTION_SIGNATURE_VERIFICATION_FAILURE == -32003

\* Any other server error code; this one is "node unhealthy".
OtherRpcCode == -32005

RpcCodes ==
    { JSON_RPC_SERVER_ERROR_SEND_TRANSACTION_PREFLIGHT_FAILURE,
      JSON_RPC_SERVER_ERROR_TRANSACTION_SIGNATURE_VERIFICATION_FAILURE,
      OtherRpcCode }

LogOptions == {None, Some(<<>>), Some(<<"Program log: x">>)}
ErrOptions == {None, Some("InstructionError"), Some("AccountInUse")}
UnitOptions == {None, Some(0), Some(200)}

\* RpcSimulateTransactionResult
SimulationResults == [err : ErrOptions, logs : LogOptions, units_consumed : UnitOptions]

\* RpcResponseErrorData
ErrorDatas ==
    {[tag |-> "Empty"], [tag |-> "NodeUnhealthy"]}
    \cup {[tag |-> "SendTransactionPreflightFailure", sim |-> r] : r \in SimulationResults}

\* solana_client ClientError, by kind
TransportErrors ==
    {[kind |-> "Io"], [kind |-> "Reqwest"], [kind |-> "RpcRequestError"]}
    \cup {[kind |-> "RpcResponseError", code |-> c, data |-> d] :
             c \in RpcCodes, d \in ErrorDatas}

\* UiTransactionStatusMeta, as far as send_transaction reads it
TransactionMetas == [err : ErrOptions, log_messages : LogOptions]

FetchResults ==
    {[tag |-> "Err", error |-> e] : e \in {[kind |-> "Io"], [kind |-> "RpcRequestError"]}}
    \cup {[tag |-> "Ok", meta |-> m] :
             m \in {None} \cup {Some(x) : x \in TransactionMetas}}

RemoteResponses ==
    {[kind |-> "SubmitErr", error |-> e] : e \in TransportErrors}
    \cup {[kind |-> "SubmitOk", fetch |-> f] : f \in FetchResults}

Panic == [tag |-> "panic"]

\* Mutant of RemoteOkArm: the fetched status is not looked at.
RemoteOkArmIgnoresStatus(fetch) ==
    IF fetch.tag = "Err" THEN [tag |-> "ChannelError", error |-> fetch.error]
    ELSE IF fetch.meta = None THEN Panic
    ELSE [tag |-> "Ok",
          details |-> Details(UnwrapOr(Unwrap(fetch.meta).log_messages, <<>>), None)]

\* The Ok arm: the confirmed transaction is fetched by its signature.
RemoteOkArm(fetch) ==
    IF fetch.tag = "Err" THEN [tag |-> "ChannelError", error |-> fetch.error]
    ELSE IF fetch.meta = None THEN Panic
    ELSE LET transaction_meta == Unwrap(fetch.meta)
             details == Details(UnwrapOr(transaction_meta.log_messages, <<>>), None)
         IN  IF transaction_meta.err = None
             THEN [tag |-> "Ok", details |-> details]
             ELSE [tag |-> "FailedTransaction",
                   error |-> Unwrap(transaction_meta.err), details |-> details]

\* The preflight branch: data unpacked when it is a simulation result.
PreflightBranch(err) ==
    IF err.data.tag = "SendTransactionPreflightFailure"
    THEN IF err.data.sim.err = None THEN Panic
         ELSE [tag |-> "FailedTransaction",
               error |-> Unwrap(err.data.sim.err),
               details |-> Details(UnwrapOr(err.data.sim.logs, <<>>),
                                   err.data.sim.units_consumed)]
    ELSE [tag |-> "ChannelError", error |-> err]

\* Mutant of RemoteErrArm: the two codes are taken for each other.
RemoteErrArmCodesSwapped(err) ==
    IF err.kind = "RpcResponseError"
    THEN IF err.code = JSON_RPC_SERVER_ERROR_SEND_TRANSACTION_PREFLIGHT_FAILURE
         THEN [tag |-> "InvalidTransaction", error |-> "SignatureFailure"]
         ELSE IF err.code = JSON_RPC_SERVER_ERROR_TRANSACTION_SIGNATURE_VERIFICATION_FAILURE
         THEN PreflightBranch(err)
         ELSE [tag |-> "ChannelError", error |-> err]
    ELSE [tag |-> "ChannelError", error |-> err]

\* The Err arm: two codes of an RPC response error are re-interpreted.
RemoteErrArm(err) ==
    IF err.kind = "RpcResponseError"
    THEN IF err.code = JSON_RPC_SERVER_ERROR_TRANSACTION_SIGNATURE_VERIFICATION_FAILURE
         THEN [tag |-> "InvalidTransaction", error |-> "SignatureFailure"]
         ELSE IF err.code = JSON_RPC_SERVER_ERROR_SEND_TRANSACTION_PREFLIGHT_FAILURE
         THEN PreflightBranch(err)
         ELSE [tag |-> "ChannelError", error |-> err]
    ELSE [tag |-> "ChannelError", error |-> err]

\* RemoteClientSync::send_transaction
RemoteReturn(response) ==
    IF response.kind = "SubmitOk"
    THEN RemoteOkArm(response.fetch)
    ELSE RemoteErrArm(response.error)

RemoteSend(response) ==
    /\ backend = "remote"
    /\ sends < MaxSends
    /\ raw' = response
    /\ ret' = RemoteReturn(response)
    /\ sends' = sends + 1
    /\ UNCHANGED <<backend, bank, cache, notClient>>

NoReturn == [tag |-> "none"]
NoRaw == [kind |-> "none"]

ClientIdle ==
    /\ backend = "idle"
    /\ bank = EmptyMap
    /\ cache = {}
    /\ raw = NoRaw
    /\ ret = NoReturn
    /\ sends = 0

ClientInit ==
    /\ backend \in {"local", "remote"}
    /\ bank = IF backend = "local" THEN BankInit ELSE EmptyMap
    /\ cache = {}
    /\ raw = NoRaw
    /\ ret = NoReturn
    /\ sends = 0

ClientNext ==
    \/ \E tx \in Transactions : LocalSend(tx)
    \/ \E r \in RemoteResponses : RemoteSend(r)

GenesisIdle ==
    /\ accounts = EmptyMap
    /\ payer = None
    /\ inserted = EmptyMap
    /\ phase = "idle"
    /\ ledger = EmptyMap
    /\ envPayer = None
    /\ remote = NoRemote
    /\ got = NoResult

(***************************************************************************)
(* The error taxonomy and its erasure (client.rs).                         *)
(***************************************************************************)
TransactionErrors == {"InstructionError", "BlockhashNotFound", "SignatureFailure"}

DetailsSet == [log_messages : {<<>>, <<"Program log: x">>}, units_consumed : UnitOptions]

\* ClientError<E>, E the remote transport's error
ClientErrors ==
    {[tag |-> "ChannelError", error |-> e] : e \in TransportErrors}
    \cup {[tag |-> "InvalidTransaction", error |-> r] : r \in TransactionErrors}
    \cup {[tag |-> "FailedTransaction", error |-> r, details |-> d] :
             r \in TransactionErrors, d \in DetailsSet}
    \cup {[tag |-> "AccountNotFound", address |-> a] : a \in Addresses}
    \cup {[tag |-> "InvalidAccountData", address |-> a] : a \in Addresses}

\* Display of the transport error: a text the error determines.
DisplayTransport(e) == <<"rpc", e>>

\* Box<dyn Error + Send + Sync>: the concrete type is gone, Display and
\* source() are the boxed value's.
Box(e) == [boxed |-> e]
DisplayBox(b) == DisplayTransport(b.boxed)

\* #[error(..)] of ClientError<E>.  The format arguments are the source's:
\* `0` is the literal, `error` the field.
DisplayClientError(err) ==
    CASE err.tag = "ChannelError" -> <<"channel error: ", DisplayTransport(err.error)>>
      [] err.tag = "InvalidTransaction" -> <<"invalid transaction: ", 0>>
      [] err.tag = "FailedTransaction" -> <<"transaction failed to execute: ", err.error>>
      [] err.tag = "AccountNotFound" -> <<"account not found: ", 0>>
      [] err.tag = "InvalidAccountData" ->
            <<"account ", 0, " contains invalid data that cannot be deserialized">>

\* #[error(..)] of DynClientError
DisplayDynClientError(err) ==
    CASE err.tag = "ChannelError" -> <<"channel error: ", DisplayBox(err.error)>>
      [] err.tag = "InvalidTransaction" -> <<"invalid transaction: ", 0>>
      [] err.tag = "FailedTransaction" -> <<"transaction failed to execute: ", err.error>>
      [] err.tag = "AccountNotFound" -> <<"account not found: ", 0>>
      [] err.tag = "InvalidAccountData" ->
            <<"account ", 0, " contains invalid data that cannot be deserialized">>

\* Mutant of DynFrom: the two account arms are taken for each other.
DynFromArmsSwapped(err) ==
    CASE err.tag = "ChannelError" -> [tag |-> "ChannelError", error |-> Box(err.error)]
      [] err.tag = "InvalidTransaction" -> [tag |-> "InvalidTransaction", error |-> err.error]
      [] err.tag = "FailedTransaction" ->
            [tag |-> "FailedTransaction", error |-> err.error, details |-> err.details]
      [] err.tag = "AccountNotFound" -> [tag |-> "InvalidAccountData", address |-> err.address]
      [] err.tag = "InvalidAccountData" ->
            [tag |-> "AccountNotFound", address |-> err.address]

\* impl From<ClientError<E>> for DynClientError
DynFrom(err) ==
    CASE err.tag = "ChannelError" -> [tag |-> "ChannelError", error |-> Box(err.error)]
      [] err.tag = "InvalidTransaction" -> [tag |-> "InvalidTransaction", error |-> err.error]
      [] err.tag = "FailedTransaction" ->
            [tag |-> "FailedTransaction", error |-> err.error, details |-> err.details]
      [] err.tag = "AccountNotFound" -> [tag |-> "AccountNotFound", address |-> err.address]
      [] err.tag = "InvalidAccountData" ->
            [tag |-> "InvalidAccountData", address |-> err.address]

ErrIdle == errIn = NoReturn /\ errOut = NoReturn

ErrInit == errIn \in ClientErrors /\ errOut = NoReturn

Convert ==
    /\ errOut = NoReturn
    /\ errIn # NoReturn
    /\ errOut' = DynFrom(errIn)
    /\ UNCHANGED <<errIn, notErr>>

ErrNext == Convert

(***************************************************************************)
(* The legacy deployment protocol (lib.rs): create_account_with_data and   *)
(* deploy_program, one transaction per step through run_instruction.  The  *)
(* ledger holds the account at the program address; the system program and *)
(* the loader act on it as their instructions say.                         *)
(***************************************************************************)
ChunkSize == 900

MaxPayloadLen == 1801

\* A payload of n bytes; byte i is i mod 251, so that no two chunks agree.
PayloadOfLen(n) == [i \in 1..n |-> i % 251]

\* slice::chunks(size): consecutive pieces of `size` elements, the last one
\* shorter when the length is no multiple of size; none for an empty slice.
\* Mutant of NumChunks: a last piece shorter than `size` is dropped.
NumChunksFloor(data, size) == Len(data) \div size

NumChunks(data, size) == (Len(data) + size - 1) \div size

Chunk(data, size, k) == SubSeq(data, (k - 1) * size + 1, Min(k * size, Len(data)))

Zeros(n) == [i \in 1..n |-> 0]

\* How the ledger may treat a transaction apart from what its instruction
\* does: take it, refuse it unexecuted, or execute and revert it.
Treatments == {"accept", "not_executed", "reverted"}

TxOk(st) == [ok |-> TRUE, store |-> st]
TxErr(e, st) == [ok |-> FALSE, error |-> e, store |-> st]

InstructionFailed ==
    [tag |-> "FailedTransaction", error |-> "InstructionError",
     details |-> Details(<<"failed">>, Some(150))]

\* system_instruction::create_account: the address must not be in use.
ApplyCreate(st, tx) ==
    IF st # None THEN TxErr(InstructionFailed, st)
    ELSE TxOk(Some([lamports |-> tx.lamports, data |-> Zeros(tx.space),
                    owner |-> tx.owner, executable |-> FALSE]))

\* loader_instruction::write: the bytes land at the offset, inside the data.
ApplyWrite(st, tx) ==
    IF st = None THEN TxErr(InstructionFailed, st)
    ELSE LET acc == Unwrap(st)
         IN  IF acc.owner # BpfLoader \/ acc.executable
                \/ tx.offset + Len(tx.bytes) > Len(acc.data)
             THEN TxErr(InstructionFailed, st)
             ELSE TxOk(Some([acc EXCEPT !.data =
                     [i \in 1..Len(acc.data) |->
                        IF i > tx.offset /\ i <= tx.offset + Len(tx.bytes)
                        THEN tx.bytes[i - tx.offset] ELSE acc.data[i]]]))

\* loader_instruction::finalize: the account becomes executable.
ApplyFinalize(st, tx) ==
    IF st = None THEN TxErr(InstructionFailed, st)
    ELSE LET acc == Unwrap(st)
         IN  IF acc.owner # BpfLoader THEN TxErr(InstructionFailed, st)
             ELSE TxOk(Some([acc EXCEPT !.executable = TRUE]))

\* One transaction through the backend's send_transaction.
LedgerRun(st, tx, treatment) ==
    IF treatment = "not_executed"
    THEN TxErr([tag |-> "InvalidTransaction", error |-> "BlockhashNotFound"], st)
    ELSE IF treatment = "reverted" THEN TxErr(InstructionFailed, st)
    ELSE CASE tx.kind = "create_account" -> ApplyCreate(st, tx)
           [] tx.kind = "write" -> ApplyWrite(st, tx)
           [] tx.kind = "finalize" -> ApplyFinalize(st, tx)

\* system_instruction::create_account(payer, account, minimum_balance(len),
\* len, bpf_loader)
CreateTx(data) ==
    [kind |-> "create_account", lamports |-> minimum_balance(Len(data)),
     space |-> Len(data), owner |-> BpfLoader]

\* Mutant of WriteTx: every chunk is written at offset 0.
WriteTxAtZero(off, chunk) == [kind |-> "write", offset |-> 0, bytes |-> chunk]

\* loader_instruction::write(account, bpf_loader, offset, chunk)
WriteTx(off, chunk) == [kind |-> "write", offset |-> off, bytes |-> chunk]

FinalizeTx == [kind |-> "finalize"]

\* The namespace deploy_upgradeable_program derives the address under.
UpgradeableLoaderId == 11

\* Addresses of the upgradeable deployment are small numbers.  A keypair's
\* address is a point of the curve (the even ones), a derived address is not.
OnCurve(a) == a % 2 = 0

\* The hash of the seed, the bump seed and the program id.
HashSeeds(seed, bump, program_id) == (5 * seed + 3 * bump + program_id) % 16

\* Pubkey::find_program_address: the bump seeds are tried from 255 down, the
\* first whose hash is off the curve gives the address.
find_program_address(seed, program_id) ==
    LET viable == {b \in 0..255 : ~OnCurve(HashSeeds(seed, b, program_id))}
        bump == CHOOSE b \in viable : \A c \in viable : c <= b
    IN  HashSeeds(seed, bump, program_id)

\* Mutant of programdata_address: derived from the buffer's address.
programdata_address_OfBuffer == find_program_address(keys.buffer, UpgradeableLoaderId)

\* let (programdata_address, _) = Pubkey::find_program_address(..)
programdata_address == find_program_address(keys.program, UpgradeableLoaderId)

program_max_size == IF compact THEN Len(payload) ELSE Len(payload) * 2

\* UpgradeableLoaderState::programdata_len / program_len: the sizes of the
\* program-data account (metadata and bytes) and of the program account.
programdata_len(n) == 45 + n

program_len == 36

buffer_balance == minimum_balance(programdata_len(program_max_size))

\* bpf_loader_upgradeable::create_buffer(payer, buffer, authority,
\* buffer_balance, program_max_size)
CreateBufferTx ==
    [kind |-> "create_buffer", buffer |-> keys.buffer,
     authority |-> keys.authority, lamports |-> buffer_balance,
     program_len |-> program_max_size]

\* bpf_loader_upgradeable::write(buffer, authority, offset, chunk)
BufferWriteTx(off, chunk) ==
    [kind |-> "buffer_write", buffer |-> keys.buffer,
     authority |-> keys.authority, offset |-> off, bytes |-> chunk]

\* bpf_loader_upgradeable::deploy_with_max_program_len(payer, program, buffer,
\* authority, minimum_balance(program_len), program_max_size)
DeployTx ==
    [kind |-> "deploy", program |-> keys.program, buffer |-> keys.buffer,
     authority |-> keys.authority,
     program_lamports |-> minimum_balance(program_len),
     max_data_len |-> program_max_size]

\* An account of the upgradeable ledger that is none of the loader's.
ForeignLedgerAccount ==
    [lamports |-> 1, state |-> "Uninitialized", authority |-> None,
     data |-> <<>>, executable |-> FALSE, programdata |-> None]

\* create_buffer: the buffer address must not be in use; the account holds
\* the lamports, the authority and program_len bytes, all zero.
ApplyCreateBuffer(ul, tx) ==
    IF tx.buffer \in DOMAIN ul THEN TxErr(InstructionFailed, ul)
    ELSE TxOk([a \in DOMAIN ul \cup {tx.buffer} |->
                 IF a = tx.buffer
                 THEN [lamports |-> tx.lamports, state |-> "Buffer",
                       authority |-> Some(tx.authority),
                       data |-> Zeros(tx.program_len),
                       executable |-> FALSE, programdata |-> None]
                 ELSE ul[a]])

\* write: the account is a buffer of this authority; the bytes land at the
\* offset, inside the buffer's bytes.
ApplyBufferWrite(ul, tx) ==
    IF tx.buffer \notin DOMAIN ul THEN TxErr(InstructionFailed, ul)
    ELSE LET b == ul[tx.buffer]
         IN  IF b.state # "Buffer" \/ b.authority # Some(tx.authority)
                \/ tx.offset + Len(tx.bytes) > Len(b.data)
             THEN TxErr(InstructionFailed, ul)
             ELSE TxOk([ul EXCEPT ![tx.buffer].data =
                     [i \in 1..Len(b.data) |->
                        IF i > tx.offset /\ i <= tx.offset + Len(tx.bytes)
                        THEN tx.bytes[i - tx.offset] ELSE b.data[i]]])

\* deploy_with_max_program_len: the program account is created, the
\* program-data account is created at the derived address with the buffer's
\* bytes, the buffer is drained and leaves the ledger.
ApplyDeploy(ul, tx) ==
    LET pda == find_program_address(tx.program, UpgradeableLoaderId)
    IN  IF tx.program \in DOMAIN ul \/ pda \in DOMAIN ul
           \/ tx.buffer \notin DOMAIN ul
        THEN TxErr(InstructionFailed, ul)
        ELSE LET b == ul[tx.buffer]
             IN  IF b.state # "Buffer" \/ b.authority # Some(tx.authority)
                    \/ Len(b.data) = 0 \/ tx.max_data_len < Len(b.data)
                 THEN TxErr(InstructionFailed, ul)
                 ELSE TxOk([a \in (DOMAIN ul \ {tx.buffer}) \cup {tx.program, pda} |->
                        IF a = tx.program
                        THEN [lamports |-> tx.program_lamports,
                              state |-> "Program", authority |-> None,
                              data |-> <<>>, executable |-> TRUE,
                              programdata |-> Some(pda)]
                        ELSE IF a = pda
                        THEN [lamports |-> minimum_balance(programdata_len(tx.max_data_len)),
                              state |-> "ProgramData",
                              authority |-> Some(tx.authority),
                              data |-> b.data, executable |-> FALSE,
                              programdata |-> None]
                        ELSE ul[a]])

\* One transaction of the upgradeable deployment through send_transaction.
UpgradeableRun(ul, tx, treatment) ==
    IF treatment = "not_executed"
    THEN TxErr([tag |-> "InvalidTransaction", error |-> "BlockhashNotFound"], ul)
    ELSE IF treatment = "reverted" THEN TxErr(InstructionFailed, ul)
    ELSE CASE tx.kind = "create_buffer" -> ApplyCreateBuffer(ul, tx)
           [] tx.kind = "buffer_write" -> ApplyBufferWrite(ul, tx)
           [] tx.kind = "deploy" -> ApplyDeploy(ul, tx)

\* self.client.send_transaction(transaction): the outcome and the ledger
\* after it.
BackendRun(tx, treatment) ==
    IF tx.kind \in {"create_buffer", "buffer_write", "deploy"}
    THEN LET r == UpgradeableRun(uledger, tx, treatment)
         IN  [ok |-> r.ok, error |-> IF r.ok THEN NoReturn ELSE r.error,
              store |-> store, uledger |-> r.store]
    ELSE LET r == LedgerRun(store, tx, treatment)
         IN  [ok |-> r.ok, error |-> IF r.ok THEN NoReturn ELSE r.error,
              store |-> r.store, uledger |-> uledger]

\* What the operation returns once its last transaction went through.
Returned ==
    IF dop = "deploy_upgradeable_program"
    THEN [tag |-> "Ok", value |-> programdata_address]
    ELSE [tag |-> "Ok"]

\* Where the operation goes once k chunks are written.
AfterChunks(k) ==
    IF k < NumChunks(payload, ChunkSize) THEN "write"
    ELSE IF dop = "deploy_program" THEN "finalize"
    ELSE "done"

\* Mutant of Submit: the Err of a transaction is dropped and the operation
\* goes on.
SubmitPastFailure(tx, treatment, next) ==
    LET r == BackendRun(tx, treatment)
    IN  /\ submitted' = Append(submitted, tx)
        /\ outcomes' = Append(outcomes, [ok |-> r.ok, error |-> r.error])
        /\ store' = r.store
        /\ uledger' = r.uledger
        /\ dpc' = next
        /\ dres' = IF next = "done" THEN Returned ELSE dres

\* run_instructions(..)?: the step's transaction is submitted; an Err ends
\* the operation with that error.
Submit(tx, treatment, next) ==
    LET r == BackendRun(tx, treatment)
    IN  /\ submitted' = Append(submitted, tx)
        /\ outcomes' = Append(outcomes, [ok |-> r.ok, error |-> r.error])
        /\ store' = r.store
        /\ uledger' = r.uledger
        /\ IF r.ok
           THEN dpc' = next /\ dres' = IF next = "done" THEN Returned ELSE dres
           ELSE dpc' = "failed" /\ dres' = r.error

\* create_account_with_data: the create_account transaction
CreateStep(treatment) ==
    /\ dpc = "create"
    /\ Submit(CreateTx(payload), treatment, AfterChunks(0))
    /\ UNCHANGED <<dop, payload, chunkIdx, offset, keys, compact, notDeploy>>

\* create_account_with_data: one turn of the loop over data.chunks(900)
WriteStep(treatment) ==
    /\ dpc = "write"
    /\ LET chunk == Chunk(payload, ChunkSize, chunkIdx + 1)
       IN  /\ Submit(WriteTx(offset, chunk), treatment, AfterChunks(chunkIdx + 1))
           /\ chunkIdx' = chunkIdx + 1
           /\ offset' = offset + Len(chunk)
    /\ UNCHANGED <<dop, payload, keys, compact, notDeploy>>

\* deploy_program: the finalize transaction
FinalizeStep(treatment) ==
    /\ dpc = "finalize"
    /\ Submit(FinalizeTx, treatment, "done")
    /\ UNCHANGED <<dop, payload, chunkIdx, offset, keys, compact, notDeploy>>

\* Where deploy_upgradeable_program goes once k chunks are written.
AfterBufferChunks(k) ==
    IF k < NumChunks(payload, ChunkSize) THEN "buffer_write" ELSE "deploy"

\* deploy_upgradeable_program: the create_buffer transaction
CreateBufferStep(treatment) ==
    /\ dpc = "create_buffer"
    /\ Submit(CreateBufferTx, treatment, AfterBufferChunks(0))
    /\ UNCHANGED <<dop, payload, chunkIdx, offset, keys, compact, notDeploy>>

\* deploy_upgradeable_program: one turn of the loop over data.chunks(900)
BufferWriteStep(treatment) ==
    /\ dpc = "buffer_write"
    /\ LET chunk == Chunk(payload, ChunkSize, chunkIdx + 1)
       IN  /\ Submit(BufferWriteTx(offset, chunk), treatment,
                     AfterBufferChunks(chunkIdx + 1))
           /\ chunkIdx' = chunkIdx + 1
           /\ offset' = offset + Len(chunk)
    /\ UNCHANGED <<dop, payload, keys, compact, notDeploy>>

\* deploy_upgradeable_program: the deploy transaction
DeployStep(treatment) ==
    /\ dpc = "deploy"
    /\ Submit(DeployTx, treatment, "done")
    /\ UNCHANGED <<dop, payload, chunkIdx, offset, keys, compact, notDeploy>>

\* An account the program address may hold before the operation.
ForeignAccount ==
    [lamports |-> 1, data |-> <<>>, owner |-> SystemProgram, executable |-> FALSE]

NoKeys == [program |-> 0, buffer |-> 0, authority |-> 0]

EmptyLedger == [a \in {} |-> ForeignLedgerAccount]

DeployIdle ==
    /\ dop = "idle"
    /\ payload = <<>>
    /\ dpc = "idle"
    /\ chunkIdx = 0
    /\ offset = 0
    /\ store = None
    /\ submitted = <<>>
    /\ dres = NoReturn
    /\ keys = NoKeys
    /\ compact = FALSE
    /\ uledger = EmptyLedger
    /\ outcomes = <<>>

\* The keypairs deploy_upgradeable_program may be given: the buffer's may be
\* the program's, the authority's may be the buffer's.
ProgramKeys == {2, 4}
BufferKeys == {4, 6}
AuthorityKeys == {6, 8}

\* The payload lengths at the chunk boundaries: deploy_program, which runs
\* create_account_with_data, takes every length, the other two these.
BoundaryLens ==
    {n \in 0..MaxPayloadLen : n % ChunkSize \in {0, 1, ChunkSize - 1}}

DeployInit ==
    /\ dop \in {"create_account_with_data", "deploy_program",
                "deploy_upgradeable_program"}
    /\ chunkIdx = 0
    /\ offset = 0
    /\ submitted = <<>>
    /\ outcomes = <<>>
    /\ dres = NoReturn
    /\ IF dop = "deploy_upgradeable_program"
       THEN /\ payload \in {PayloadOfLen(n) : n \in BoundaryLens}
            /\ dpc = "create_buffer"
            /\ store = None
            /\ keys \in [program : ProgramKeys, buffer : BufferKeys,
                          authority : AuthorityKeys]
            /\ compact \in BOOLEAN
            /\ \E used \in SUBSET {keys.program, keys.buffer,
                                   find_program_address(keys.program, UpgradeableLoaderId)} :
                  uledger = [a \in used |-> ForeignLedgerAccount]
       ELSE /\ payload \in {PayloadOfLen(n) : n \in
                    IF dop = "deploy_program" THEN 0..MaxPayloadLen
                    ELSE BoundaryLens}
            /\ dpc = "create"
            /\ store \in {None, Some(ForeignAccount)}
            /\ keys = NoKeys
            /\ compact = FALSE
            /\ uledger = EmptyLedger

DeployNext ==
    \/ \E t \in Treatments : CreateStep(t)
    \/ \E t \in Treatments : WriteStep(t)
    \/ \E t \in Treatments : FinalizeStep(t)
    \/ \E t \in Treatments : CreateBufferStep(t)
    \/ \E t \in Treatments : BufferWriteStep(t)
    \/ \E t \in Treatments : DeployStep(t)

(***************************************************************************)
(* Account queries: ClientSync::get_account of the local backend, the      *)
(* trait's get_sysvar and Environment::token_balance.  An account's data   *)
(* is kept as its length and, where it is long enough to have one, the     *)
(* token account's state byte and amount.                                  *)
(***************************************************************************)
ClockId == "SysvarC1ock11111111111111111111111111111111"

QueryAddrs == {"a1", RentId, ClockId}

\* spl_token::state::Account::LEN
TokenAccountLen == 165

\* The serialized size of the sysvar T.
SysvarSize(T) == IF T = RentId THEN 17 ELSE 40

Sysvars == {RentId, ClockId}

QueryDatas ==
    [len : {0, SysvarSize(RentId), SysvarSize(ClockId), TokenAccountLen},
     state : {1, 3}, amount : {5}]

QueryLedgers == [QueryAddrs -> {None} \cup {Some(d) : d \in QueryDatas}]

\* from_account::<T, _>: the data deserializes when it is long enough.
from_account(T, data) ==
    IF data.len >= SysvarSize(T) THEN Some([sysvar |-> T]) ELSE None

\* spl_token::state::Account::unpack_unchecked: the length is exactly LEN and
\* the state byte is one of the enum's three.
unpack_unchecked(data) ==
    IF data.len = TokenAccountLen /\ data.state \in 0..2
    THEN Some([amount |-> data.amount]) ELSE None

\* LocalClientSync::get_account: bank.get_account(&address)
\*     .ok_or(ClientError::AccountNotFound(address))
client_get_account(address) ==
    IF qledger[address] = None
    THEN [tag |-> "AccountNotFound", address |-> Some(address)]
    ELSE [tag |-> "Ok", value |-> Unwrap(qledger[address])]

\* ClientSync::get_sysvar::<T>
get_sysvar(T) ==
    LET r == client_get_account(T)
    IN  IF r.tag # "Ok" THEN r
        ELSE IF from_account(T, r.value) = None
        THEN [tag |-> "InvalidAccountData", address |-> Some(T)]
        ELSE [tag |-> "Ok", value |-> Unwrap(from_account(T, r.value))]

\* Environment::token_balance: the error of a failed decode is built from
\* the variant ClientError::InvalidAccountData with no address given to it.
token_balance(token_account) ==
    LET r == client_get_account(token_account)
    IN  IF r.tag # "Ok" THEN r
        ELSE IF unpack_unchecked(r.value) = None
        THEN [tag |-> "InvalidAccountData", address |-> None]
        ELSE [tag |-> "Ok", value |-> Unwrap(unpack_unchecked(r.value)).amount]

NoCall == [op |-> "none", address |-> None]

QueryIdle ==
    /\ qledger = [a \in {} |-> None]
    /\ qcall = NoCall
    /\ qres = NoReturn

QueryInit ==
    /\ qledger \in QueryLedgers
    /\ qcall = NoCall
    /\ qres = NoReturn

QueryGetAccount(address) ==
    /\ qcall' = [op |-> "get_account", address |-> Some(address)]
    /\ qres' = client_get_account(address)
    /\ UNCHANGED <<qledger, notQuery>>

QueryGetSysvar(T) ==
    /\ qcall' = [op |-> "get_sysvar", address |-> Some(T)]
    /\ qres' = get_sysvar(T)
    /\ UNCHANGED <<qledger, notQuery>>

QueryTokenBalance(address) ==
    /\ qcall' = [op |-> "token_balance", address |-> Some(address)]
    /\ qres' = token_balance(address)
    /\ UNCHANGED <<qledger, notQuery>>

QueryNext ==
    \/ \E a \in QueryAddrs : QueryGetAccount(a)
    \/ \E T \in Sysvars : QueryGetSysvar(T)
    \/ \E a \in QueryAddrs : QueryTokenBalance(a)

InitGenesis == GenesisInit /\ ClientIdle /\ ErrIdle /\ DeployIdle /\ QueryIdle

InitClient == ClientInit /\ GenesisIdle /\ ErrIdle /\ DeployIdle /\ QueryIdle

InitErr == ErrInit /\ GenesisIdle /\ ClientIdle /\ DeployIdle /\ QueryIdle

InitDeploy == DeployInit /\ GenesisIdle /\ ClientIdle /\ ErrIdle /\ QueryIdle

InitQuery == QueryInit /\ GenesisIdle /\ ClientIdle /\ ErrIdle /\ DeployIdle

SpecGenesis == InitGenesis /\ [][GenesisNext]_vars

SpecClient == InitClient /\ [][ClientNext]_vars

SpecErr == InitErr /\ [][ErrNext]_vars

SpecDeploy == InitDeploy /\ [][DeployNext]_vars

SpecQuery == InitQuery /\ [][QueryNext]_vars

(***************************************************************************)
(* The claims.                                                             *)
(***************************************************************************)

\* What C1 expects get_account to show for a configured account.
ExpectedLamports(config) ==
    IF config.lamports = None
    THEN Lam(minimum_balance(Len(config.data)))
    ELSE Lam(Unwrap(config.lamports))

\* C1 (as stated): after build_local, get_account on a configured address
\* returns the configured data, owner and executable flag, and lamports equal
\* to the configured value, or to the rent-exempt minimum of the default rent
\* schedule for the data length when none was configured.
C1_GenesisAccountsReadBack ==
    (phase = "local" /\ got.address \in DOMAIN accounts) =>
        /\ got.result.tag = "Ok"
        /\ got.result.account.data = accounts[got.address].data
        /\ got.result.account.owner = accounts[got.address].owner
        /\ got.result.account.executable = accounts[got.address].executable
        /\ got.result.account.lamports = ExpectedLamports(accounts[got.address])

\* C2: an add_account / add_program whose address the builder already holds
\* aborts at that call: an address inserted twice means the builder panicked,
\* so no environment is built from such a configuration.
C2_DuplicateInsertAborts ==
    /\ \A a \in DOMAIN inserted : inserted[a] >= 2 => phase = "panicked"
    /\ phase \in {"local", "remote", "remote_err"} =>
          \A a \in DOMAIN inserted : inserted[a] <= 1

\* C2 witness: a second insert at one address happened, and the builder aborted.
C2_Witness ==
    /\ phase = "panicked"
    /\ \E a \in DOMAIN inserted : inserted[a] = 2

\* C3: local send_transaction returns Ok(details) for an executed success,
\* FailedTransaction{reason, details} for an executed failure, both with the
\* logs and units of the attempt, and InvalidTransaction(reason) for a
\* transaction rejected at batch preparation or not executed; nothing else.
C3_LocalResultMapping ==
    (backend = "local" /\ raw.kind # "none") =>
        /\ (raw.kind = "Executed" /\ raw.status = None) =>
              ret = [tag |-> "Ok",
                     details |-> Details(Unwrap(raw.log_messages), raw.executed_units)]
        /\ (raw.kind = "Executed" /\ raw.status # None) =>
              ret = [tag |-> "FailedTransaction", error |-> Unwrap(raw.status),
                     details |-> Details(Unwrap(raw.log_messages), raw.executed_units)]
        /\ raw.kind \in {"PrepareErr", "NotExecuted"} =>
              ret = [tag |-> "InvalidTransaction", error |-> raw.error]
        /\ ret.tag \in {"Ok", "FailedTransaction", "InvalidTransaction"}

\* C3 witness: a transaction that executed and failed came back as
\* FailedTransaction with its logs.
C3_Witness ==
    /\ backend = "local"
    /\ raw.kind = "Executed"
    /\ ret.tag = "FailedTransaction"
    /\ ret.details.log_messages # <<>>

\* C4: a local send_transaction that returns InvalidTransaction leaves the
\* ledger (every balance and the status cache) as it was before the call.
C4_InvalidLeavesLedger ==
    [][(backend = "local" /\ sends' = sends + 1 /\ ret'.tag = "InvalidTransaction")
          => (bank' = bank /\ cache' = cache)]_vars

\* C4 witness: on a ledger an earlier transaction has changed, a transaction
\* with a stale blockhash came back as InvalidTransaction.
C4_Witness ==
    /\ backend = "local"
    /\ bank # BankInit
    /\ ret.tag = "InvalidTransaction"
    /\ raw.error = "BlockhashNotFound"

IsRpcCode(e, code) == e.kind = "RpcResponseError" /\ e.code = code

\* C5 (as stated): on a failed submission the signature-verification code
\* yields InvalidTransaction, the preflight-failure code yields
\* FailedTransaction, and every other transport failure ChannelError with
\* the original error (whenever the call returns).
C5_Original ==
    (backend = "remote" /\ raw.kind = "SubmitErr" /\ ret # Panic) =>
        IF IsRpcCode(raw.error, JSON_RPC_SERVER_ERROR_TRANSACTION_SIGNATURE_VERIFICATION_FAILURE)
        THEN ret.tag = "InvalidTransaction"
        ELSE IF IsRpcCode(raw.error, JSON_RPC_SERVER_ERROR_SEND_TRANSACTION_PREFLIGHT_FAILURE)
        THEN ret.tag = "FailedTransaction"
        ELSE ret = [tag |-> "ChannelError", error |-> raw.error]

\* C5 (amended): the signature-verification code yields InvalidTransaction;
\* the preflight-failure code yields FailedTransaction with the simulated
\* reason, logs and units when the error data is a simulation result holding
\* a failure reason, and aborts when the simulation result holds none; the
\* preflight code with any other data, and every other transport failure,
\* is ChannelError holding the original transport error.
C5_RemoteErrArm ==
    (backend = "remote" /\ raw.kind = "SubmitErr") =>
        IF IsRpcCode(raw.error, JSON_RPC_SERVER_ERROR_TRANSACTION_SIGNATURE_VERIFICATION_FAILURE)
        THEN ret = [tag |-> "InvalidTransaction", error |-> "SignatureFailure"]
        ELSE IF /\ IsRpcCode(raw.error, JSON_RPC_SERVER_ERROR_SEND_TRANSACTION_PREFLIGHT_FAILURE)
                /\ raw.error.data.tag = "SendTransactionPreflightFailure"
        THEN LET sim == raw.error.data.sim
             IN  IF sim.err = None THEN ret = Panic
                 ELSE ret = [tag |-> "FailedTransaction", error |-> Unwrap(sim.err),
                             details |-> Details(IF sim.logs = None THEN <<>>
                                                 ELSE Unwrap(sim.logs),
                                                 sim.units_consumed)]
        ELSE ret = [tag |-> "ChannelError", error |-> raw.error]

\* C5 witness: a preflight-failure code whose data is no simulation result
\* came back as ChannelError.
C5_Witness ==
    /\ backend = "remote"
    /\ raw.kind = "SubmitErr"
    /\ IsRpcCode(raw.error, JSON_RPC_SERVER_ERROR_SEND_TRANSACTION_PREFLIGHT_FAILURE)
    /\ raw.error.data.tag = "Empty"
    /\ ret.tag = "ChannelError"

\* C6 (as stated): a transaction whose submission succeeded is reported as
\* FailedTransaction when the fetched status carries an error and as Ok when
\* it carries none, and as nothing else (whenever the call returns).
C6_Original ==
    (backend = "remote" /\ raw.kind = "SubmitOk" /\ ret # Panic) =>
        ret.tag \in {"Ok", "FailedTransaction"}

\* C6 (amended): after a successful submission, when the fetch of the
\* confirmed transaction succeeds and carries status metadata, the result is
\* FailedTransaction with the fetched logs if the status carries an error and
\* Ok with the fetched logs if it carries none; when the fetch itself fails
\* the result is ChannelError holding the fetch's error, and when the fetched
\* transaction carries no metadata the call aborts.
C6_RemoteOkArm ==
    (backend = "remote" /\ raw.kind = "SubmitOk") =>
        IF raw.fetch.tag = "Err"
        THEN ret = [tag |-> "ChannelError", error |-> raw.fetch.error]
        ELSE IF raw.fetch.meta = None THEN ret = Panic
        ELSE LET meta == Unwrap(raw.fetch.meta)
                 logs == IF meta.log_messages = None THEN <<>>
                         ELSE Unwrap(meta.log_messages)
             IN  IF meta.err = None
                 THEN ret.tag = "Ok" /\ ret.details.log_messages = logs
                 ELSE /\ ret.tag = "FailedTransaction"
                      /\ ret.error = Unwrap(meta.err)
                      /\ ret.details.log_messages = logs

\* C6 witness: the submission succeeded, the fetch failed, and the caller got
\* ChannelError.
C6_Witness ==
    /\ backend = "remote"
    /\ raw.kind = "SubmitOk"
    /\ raw.fetch.tag = "Err"
    /\ ret.tag = "ChannelError"

HasDetails(r) == r.tag \in {"Ok", "FailedTransaction"}

\* C7 (as stated): the unit count is present in every TransactionDetails of
\* the local backend and absent in every one of the remote backend.
C7_Original ==
    /\ (backend = "local" /\ HasDetails(ret)) => ret.details.units_consumed # None
    /\ (backend = "remote" /\ HasDetails(ret)) => ret.details.units_consumed = None

\* C7 (amended): the unit count is present in every TransactionDetails of the
\* local backend, absent in every one the remote backend builds from a
\* fetched confirmed transaction, and on the remote preflight-failure path it
\* is whatever the simulation result carried, present or absent.
C7_UnitsByBackend ==
    /\ (backend = "local" /\ HasDetails(ret)) => ret.details.units_consumed # None
    /\ (backend = "remote" /\ HasDetails(ret) /\ raw.kind = "SubmitOk") =>
          ret.details.units_consumed = None
    /\ (backend = "remote" /\ HasDetails(ret) /\ raw.kind = "SubmitErr") =>
          ret.details.units_consumed = raw.error.data.sim.units_consumed

\* C7 witness: a remote preflight failure came back with a unit count.
C7_Witness ==
    /\ backend = "remote"
    /\ raw.kind = "SubmitErr"
    /\ ret.tag = "FailedTransaction"
    /\ ret.details.units_consumed # None

\* C8 (as stated): a remote build yields an Environment only if every
\* configured address and the payer's address were asked for on the remote
\* ledger and exist there.
C8_RemoteBuildChecksExistence ==
    phase = "remote" =>
        LET needed == DOMAIN accounts \cup {Unwrap(payer)}
        IN  needed \subseteq remote.queried /\ needed \subseteq remote.exists

\* C9: the conversion to DynClientError keeps the variant, its payload and
\* its message text; for ChannelError the transport error is boxed and its
\* display text is unchanged.
C9_ErasurePreserves ==
    errOut # NoReturn =>
        /\ errOut.tag = errIn.tag
        /\ DisplayDynClientError(errOut) = DisplayClientError(errIn)
        /\ errIn.tag = "ChannelError" =>
              /\ errOut.error = Box(errIn.error)
              /\ DisplayBox(errOut.error) = DisplayTransport(errIn.error)
        /\ errIn.tag = "InvalidTransaction" => errOut.error = errIn.error
        /\ errIn.tag = "FailedTransaction" =>
              errOut.error = errIn.error /\ errOut.details = errIn.details
        /\ errIn.tag \in {"AccountNotFound", "InvalidAccountData"} =>
              errOut.address = errIn.address

\* C9 witness: a ChannelError was converted.
C9_Witness == errOut # NoReturn /\ errIn.tag = "ChannelError"

\* C10: a deploy_program in which every transaction succeeded leaves the
\* program account executable, owned by the legacy loader, with data of the
\* payload's length and equal to the payload byte for byte.
C10_DeployStoresPayload ==
    (dop = "deploy_program" /\ dpc = "done") =>
        /\ store # None
        /\ Unwrap(store).executable
        /\ Unwrap(store).owner = BpfLoader
        /\ Len(Unwrap(store).data) = Len(payload)
        /\ Unwrap(store).data = payload

\* C10 witness: a payload of more than one chunk, its length no multiple of
\* the chunk size, was deployed.
C10_Witness ==
    /\ dop = "deploy_program"
    /\ dpc = "done"
    /\ Len(payload) > ChunkSize
    /\ Len(payload) % ChunkSize # 0

\* C15: after build_local the payer's address holds a system-owned,
\* non-executable account with empty data and the genesis payer balance,
\* and get_account shows it, also when the builder was given an account or a
\* program at the payer's own address (which it does not reject).
C15_PayerAccountAtGenesis ==
    phase = "local" =>
        /\ envPayer # None
        /\ Unwrap(envPayer) \in DOMAIN ledger
        /\ ledger[Unwrap(envPayer)].owner = SystemProgram
        /\ ~ledger[Unwrap(envPayer)].executable
        /\ ledger[Unwrap(envPayer)].data = <<>>
        /\ ledger[Unwrap(envPayer)].lamports = sol_to_lamports(PayerGenesisSol)
        /\ got.address = Unwrap(envPayer) =>
              got.result = [tag |-> "Ok", account |-> ledger[Unwrap(envPayer)]]

\* C15 witness: an account was configured at the supplied payer's address,
\* the builder did not abort, the environment was built and the payer read.
C15_Witness ==
    /\ phase = "local"
    /\ payer = Some(PayerKey)
    /\ PayerKey \in DOMAIN accounts
    /\ inserted[PayerKey] = 1
    /\ got.address = PayerKey

\* C11: a deploy_upgradeable_program that succeeds returns the address derived
\* from the program's address under the upgradeable loader's id, whatever the
\* buffer, the authority, the payload, the compact flag and the ledger were;
\* that address is not the program's, and it is where the ledger holds the
\* program data the program account points to.
C11_ProgramDataAddress ==
    (dop = "deploy_upgradeable_program" /\ dpc = "done") =>
        /\ dres.tag = "Ok"
        /\ dres.value = find_program_address(keys.program, UpgradeableLoaderId)
        /\ dres.value # keys.program
        /\ dres.value \in DOMAIN uledger
        /\ uledger[dres.value].state = "ProgramData"
        /\ uledger[keys.program].programdata = Some(dres.value)

\* C11 witness: a deployment with a buffer key other than the program key, a
\* payload of several chunks and room for growth went through.
C11_Witness ==
    /\ dop = "deploy_upgradeable_program"
    /\ dpc = "done"
    /\ keys.buffer # keys.program
    /\ ~compact
    /\ Len(payload) > ChunkSize

PhaseRank(tx) ==
    CASE tx.kind \in {"create_account", "create_buffer"} -> 0
      [] tx.kind \in {"write", "buffer_write"} -> 1
      [] tx.kind \in {"finalize", "deploy"} -> 2

C12_InOrderUntilFailure ==
    /\ Len(outcomes) = Len(submitted)
    /\ Len(submitted) > 0 => PhaseRank(submitted[1]) = 0
    /\ \A i, j \in 1..Len(submitted) : i < j =>
          /\ PhaseRank(submitted[i]) <= PhaseRank(submitted[j])
          /\ submitted[i] # submitted[j]
          /\ PhaseRank(submitted[i]) = PhaseRank(submitted[j]) =>
                /\ PhaseRank(submitted[i]) = 1
                /\ submitted[i].offset < submitted[j].offset
          /\ outcomes[i].ok
    /\ dpc = "failed" <=>
          (Len(outcomes) > 0 /\ ~outcomes[Len(outcomes)].ok)
    /\ dpc = "failed" => dres = outcomes[Len(outcomes)].error
    /\ dpc = "done" => dres.tag = "Ok"
    /\ (dop = "deploy_upgradeable_program" /\ dpc = "failed"
          /\ Len(outcomes) > 1) =>
          /\ keys.buffer \in DOMAIN uledger
          /\ uledger[keys.buffer].state = "Buffer"
          /\ uledger[keys.buffer].lamports = buffer_balance
          /\ uledger[keys.buffer].lamports > 0

C12_OneAtATime ==
    /\ dpc \in {"failed", "done"} => UNCHANGED deployVars
    /\ dpc \notin {"failed", "done"} =>
          /\ Len(submitted') = Len(submitted) + 1
          /\ SubSeq(submitted', 1, Len(submitted)) = submitted
          /\ dpc' = "failed" => (store' = store /\ uledger' = uledger)

\* C12: deploy_program and deploy_upgradeable_program submit their
\* transactions one per step in the order create, writes, finalize or deploy,
\* none twice; the first transaction that fails is the last one submitted,
\* its error is what the operation returns, it leaves the ledger as the
\* transactions before it made it, and after a failure past create_buffer the
\* buffer account is still there with its lamports.
C12_PhaseOrderFirstFailure ==
    [](C12_InOrderUntilFailure) /\ [][C12_OneAtATime]_vars

\* C12 witness: the deploy transaction of an upgradeable deployment failed
\* after the buffer was created and written.
C12_Witness ==
    /\ dop = "deploy_upgradeable_program"
    /\ dpc = "failed"
    /\ Len(submitted) >= 3
    /\ submitted[Len(submitted)].kind = "deploy"
    /\ keys.buffer \in DOMAIN uledger

IsWrite(tx) == tx.kind \in {"write", "buffer_write"}

LoopFinished ==
    \/ dpc \in {"finalize", "deploy", "done"}
    \/ Len(submitted) > 0 /\ PhaseRank(submitted[Len(submitted)]) = 2

\* C14: the writes submitted for an n-byte payload are, in order, the pieces
\* payload[900k .. min(900(k+1), n)) at offset 900k for k = 0, 1, ..; there
\* are never more than ceil(n / 900) of them, and exactly that many (none for
\* an empty payload) once the loop is through.
C14_ChunkedWrites ==
    LET w == SelectSeq(submitted, IsWrite)
        n == Len(payload)
    IN  /\ \A k \in 1..Len(w) :
              /\ w[k].offset = 900 * (k - 1)
              /\ w[k].bytes = SubSeq(payload, 900 * (k - 1) + 1, Min(900 * k, n))
              /\ Len(w[k].bytes) > 0
        /\ 900 * Len(w) < n + 900
        /\ LoopFinished => 900 * Len(w) >= n

\* C14 witness: the loop of an upgradeable deployment is through for a
\* payload of two full chunks and one byte.
C14_Witness ==
    /\ dop = "deploy_upgradeable_program"
    /\ LoopFinished
    /\ Len(payload) = 2 * ChunkSize + 1
    /\ Len(SelectSeq(submitted, IsWrite)) = 3

\* Whether the bytes at the queried address decode as the query expects.
Decodes(call, data) ==
    CASE call.op = "get_account" -> TRUE
      [] call.op = "get_sysvar" -> from_account(Unwrap(call.address), data) # None
      [] call.op = "token_balance" -> unpack_unchecked(data) # None

\* C13 (as stated): get_account, get_sysvar and token_balance return
\* AccountNotFound only when the ledger has no account at the queried
\* address and InvalidAccountData only when it has one whose bytes do not
\* decode, and either error carries the queried address.
C13_QueryErrorsCarryAddress ==
    /\ qres.tag = "AccountNotFound" =>
          /\ qledger[Unwrap(qcall.address)] = None
          /\ qres.address = qcall.address
    /\ qres.tag = "InvalidAccountData" =>
          /\ qledger[Unwrap(qcall.address)] # None
          /\ ~Decodes(qcall, Unwrap(qledger[Unwrap(qcall.address)]))
          /\ qres.address = qcall.address

====
